---- MODULE Spec2Model ----
(***************************************************************************)
(* Model of src/index.tsx: the two click handlers handleGenerate and       *)
(* handleEdit, the module state they share (originalImageState,            *)
(* editedImageState), the DOM elements they write, and the remote calls    *)
(* they await.  JavaScript runs each handler atomically up to its await    *)
(* and atomically again from the await's settlement to the handler's end,  *)
(* so every handler is two actions: the click (validation + loading state  *)
(* + request) and the settlement (try body after the await / catch /       *)
(* finally).                                                               *)
(***************************************************************************)
EXTENDS Integers, Sequences, FiniteSets, TLC

VARIABLES
  originalImageState,    \* let originalImageState: ImageState
  editedImageState,      \* let editedImageState: ImageState
  generateButton,        \* [disabled, textContent]
  generationPromptInput, \* [disabled]
  aspectRatioSelect,     \* [disabled]
  editButton,            \* [disabled, textContent]
  editPromptInput,       \* [disabled]
  originalWrapper,       \* child nodes of #original-image-wrapper
  editedWrapper,         \* child nodes of #edited-image-wrapper
  originalSaveContainer, \* child nodes of #original-save-container
  editedSaveContainer,   \* child nodes of #edited-save-container
  genCalls,              \* generateImages requests awaiting settlement
  editCalls,             \* generateContent requests awaiting settlement
  editedSource,          \* history: inlineData of the request that stored
                         \* the current editedImageState
  lastEvent              \* history: the handler step taken last

vars == <<originalImageState, editedImageState, generateButton,
          generationPromptInput, aspectRatioSelect, editButton,
          editPromptInput, originalWrapper, editedWrapper,
          originalSaveContainer, editedSaveContainer, genCalls, editCalls,
          editedSource, lastEvent>>

ui == <<generateButton, generationPromptInput, aspectRatioSelect, editButton,
        editPromptInput>>
dom == <<originalWrapper, editedWrapper, originalSaveContainer,
         editedSaveContainer>>

----------------------------------------------------------------------------
(* Bounds *)
MaxGenCalls == 2
MaxEditCalls == 2
MaxParts == 1
MaxNow == 1

----------------------------------------------------------------------------
(* Values *)
imageGenerationModel == "imagen-4.0-generate-001"
imageEditModel == "gemini-2.5-flash-image-preview"

Null == [isNull |-> TRUE]

\* mime types, as the sequence of their symbols around the separator "/"
ImageJpeg == <<"image", "/", "jpeg">>
ImagePng == <<"image", "/", "png">>

AspectRatio == {"1:1", "16:9"}

\* what the user may have typed in either textarea, as character sequences
PromptValues ==
  {<<>>, <<" ">>, <<"\t", "\n">>, <<"c">>, <<" ", "c", "\n">>}

\* IsSpace that knows the blank only
IsSpaceBlankOnly(c) == c = " "

IsSpace(c) == c \in {" ", "\t", "\n"}

RECURSIVE trimStart(_)
trimStart(s) ==
  IF s # <<>> /\ IsSpace(Head(s)) THEN trimStart(Tail(s)) ELSE s

RECURSIVE trimEnd(_)
trimEnd(s) ==
  IF s # <<>> /\ IsSpace(s[Len(s)]) THEN trimEnd(SubSeq(s, 1, Len(s) - 1))
  ELSE s

\* the value used untrimmed
trimMissing(s) == s

trim(s) == trimEnd(trimStart(s))

\* settlements of ai.models.generateImages
GenImages ==
  { [image |-> [imageBytes |-> "G1", mimeType |-> ImagePng]],
    [image |-> [imageBytes |-> "G2"]],
    [image |-> [imageBytes |-> ""]],
    [noimage |-> TRUE] }

GenResponses ==
  { [generatedImages |-> <<g>>] : g \in GenImages }
  \cup { [generatedImages |-> <<>>], [nofield |-> TRUE] }

\* settlements of ai.models.generateContent: the parts of the first candidate
EditParts ==
  { [inlineData |-> [data |-> d, mimeType |-> ImagePng]] : d \in {"E1", "E2"} }
  \cup { [text |-> "A"] }

SeqUpTo(S, n) == UNION { [1..k -> S] : k \in 0..n }

EditResponses ==
  { [candidates |-> <<[content |-> [parts |-> ps]]>>] : ps \in SeqUpTo(EditParts, MaxParts) }
  \cup { [candidates |-> <<>>] }

\* values a rejected promise may carry
Rejections == { [isError |-> TRUE, message |-> "network"], [isError |-> FALSE] }

Error(msg) == [isError |-> TRUE, message |-> msg]

errorMessage(error) ==
  IF error.isError THEN error.message ELSE "An unknown error occurred."

errorNode(error) ==
  <<[tag |-> "p", className |-> "error", text |-> errorMessage(error)]>>

loadingNode(text) == <<[tag |-> "p", className |-> "loading", text |-> text]>>

----------------------------------------------------------------------------
(* Helpers of the handlers *)

\* setGenerateUIDisabled that can only disable
setGenerateUIDisabledStuck(disabled) ==
  /\ generateButton' =
       [disabled |-> TRUE,
        textContent |-> IF disabled THEN "Generating..." ELSE "Generate Image"]
  /\ generationPromptInput' = [disabled |-> TRUE]
  /\ aspectRatioSelect' = [disabled |-> TRUE]

\* setGenerateUIDisabled with the button itself left out
setGenerateUIDisabledInputsOnly(disabled) ==
  /\ generateButton' =
       [disabled |-> FALSE,
        textContent |-> IF disabled THEN "Generating..." ELSE "Generate Image"]
  /\ generationPromptInput' = [disabled |-> disabled]
  /\ aspectRatioSelect' = [disabled |-> disabled]

\* setGenerateUIDisabled(disabled): the three generation form elements
setGenerateUIDisabled(disabled) ==
  /\ generateButton' =
       [disabled |-> disabled,
        textContent |-> IF disabled THEN "Generating..." ELSE "Generate Image"]
  /\ generationPromptInput' = [disabled |-> disabled]
  /\ aspectRatioSelect' = [disabled |-> disabled]

\* setEditUIDisabled without the early return
setEditUIDisabledNoGate(disabled, force, original) ==
  /\ editButton' =
       [disabled |-> disabled,
        textContent |-> IF disabled THEN "Editing..." ELSE "Edit Image"]
  /\ editPromptInput' = [disabled |-> disabled]

\* setEditUIDisabled that enables only when forced
setEditUIDisabledEnableOnlyForced(disabled, force, original) ==
  IF ~disabled /\ ~force
  THEN UNCHANGED <<editButton, editPromptInput>>
  ELSE /\ editButton' =
            [disabled |-> disabled,
             textContent |-> IF disabled THEN "Editing..." ELSE "Edit Image"]
       /\ editPromptInput' = [disabled |-> disabled]

\* setEditUIDisabled with the early return taken only when forced
setEditUIDisabledGateOnForce(disabled, force, original) ==
  IF ~disabled /\ original = Null /\ force
  THEN UNCHANGED <<editButton, editPromptInput>>
  ELSE /\ editButton' =
            [disabled |-> disabled,
             textContent |-> IF disabled THEN "Editing..." ELSE "Edit Image"]
       /\ editPromptInput' = [disabled |-> disabled]

\* setEditUIDisabled(disabled, force); original is the value the global
\* originalImageState has when the call is made
setEditUIDisabled(disabled, force, original) ==
  IF ~disabled /\ original = Null /\ ~force
  THEN UNCHANGED <<editButton, editPromptInput>>
  ELSE /\ editButton' =
            [disabled |-> disabled,
             textContent |-> IF disabled THEN "Editing..." ELSE "Edit Image"]
       /\ editPromptInput' = [disabled |-> disabled]

\* createSaveButton that does not clear the previous button
createSaveButtonNoClear(container, imageState, filenamePrefix) ==
  IF imageState = Null THEN container
  ELSE Append(container,
              [tag |-> "button", textContent |-> "Save Image",
               className |-> "save-button",
               onclick |-> [imageState |-> imageState,
                            filenamePrefix |-> filenamePrefix]])

\* createSaveButton(container, imageState, filenamePrefix): the container's
\* children afterwards; the click listener closes over imageState and prefix
createSaveButton(container, imageState, filenamePrefix) ==
  IF imageState = Null THEN container
  ELSE <<[tag |-> "button", textContent |-> "Save Image",
          className |-> "save-button",
          onclick |-> [imageState |-> imageState,
                       filenamePrefix |-> filenamePrefix]]>>

imgNode(imageState, alt) ==
  [tag |-> "img", src |-> imageState, alt |-> alt]

\* generationResponse.generatedImages?.[0]?.image?.imageBytes is truthy
hasImageBytes(generationResponse) ==
  /\ "generatedImages" \in DOMAIN generationResponse
  /\ Len(generationResponse.generatedImages) >= 1
  /\ "image" \in DOMAIN generationResponse.generatedImages[1]
  /\ "imageBytes" \in DOMAIN generationResponse.generatedImages[1].image
  /\ generationResponse.generatedImages[1].image.imageBytes # ""

\* generatedImageState without the default mime type
generatedImageStateRawMime(generationResponse) ==
  LET image == generationResponse.generatedImages[1].image IN
  [data |-> image.imageBytes,
   mimeType |-> IF "mimeType" \in DOMAIN image THEN image.mimeType ELSE <<>>]

\* { data: imageBytes, mimeType: image.mimeType || 'image/jpeg' }
generatedImageState(generationResponse) ==
  LET image == generationResponse.generatedImages[1].image IN
  [data |-> image.imageBytes,
   mimeType |-> IF "mimeType" \in DOMAIN image /\ image.mimeType # <<>>
                THEN image.mimeType ELSE ImageJpeg]

\* editResponse.candidates?.[0]?.content?.parts || []
responseParts(editResponse) ==
  IF /\ "candidates" \in DOMAIN editResponse
     /\ Len(editResponse.candidates) >= 1
     /\ "content" \in DOMAIN editResponse.candidates[1]
     /\ "parts" \in DOMAIN editResponse.candidates[1].content
  THEN editResponse.candidates[1].content.parts
  ELSE <<>>

isImagePart(part) == "inlineData" \in DOMAIN part
isTextPart(part) == ~isImagePart(part) /\ "text" \in DOMAIN part /\ part.text # ""

\* processPart with the image appended instead of prepended
processPartAppendImage(st, part, editPrompt) ==
  IF "inlineData" \in DOMAIN part THEN
    LET edited == [data |-> part.inlineData.data,
                   mimeType |-> part.inlineData.mimeType] IN
    [editedImageState |-> edited,
     editedWrapper |->
        Append(st.editedWrapper, [tag |-> "img", src |-> edited,
                                  alt |-> editPrompt]),
     editedSaveContainer |->
        <<[tag |-> "button", textContent |-> "Save Image",
           className |-> "save-button",
           onclick |-> [imageState |-> edited,
                        filenamePrefix |-> "edited-image"]]>>,
     imageFound |-> TRUE]
  ELSE IF "text" \in DOMAIN part /\ part.text # "" THEN
    [st EXCEPT !.editedWrapper =
        Append(st.editedWrapper, [tag |-> "p", text |-> part.text])]
  ELSE st

\* one iteration of the for loop over the parts; st holds what the loop
\* writes: editedImageState, editedWrapper, editedSaveContainer, imageFound
processPart(st, part, editPrompt) ==
  IF isImagePart(part) THEN
    LET edited == [data |-> part.inlineData.data,
                   mimeType |-> part.inlineData.mimeType] IN
    [editedImageState |-> edited,
     editedWrapper |-> <<imgNode(edited, editPrompt)>> \o st.editedWrapper,
     editedSaveContainer |->
        createSaveButton(st.editedSaveContainer, edited, "edited-image"),
     imageFound |-> TRUE]
  ELSE IF isTextPart(part) THEN
    [st EXCEPT !.editedWrapper =
        Append(st.editedWrapper, [tag |-> "p", text |-> part.text])]
  ELSE st

RECURSIVE processParts(_, _, _)
processParts(st, parts, editPrompt) ==
  IF parts = <<>> THEN st
  ELSE processParts(processPart(st, Head(parts), editPrompt), Tail(parts),
                    editPrompt)

\* s.split(sep): the segments of s between the occurrences of sep
RECURSIVE split(_, _)
split(s, sep) ==
  IF s = <<>> THEN << <<>> >>
  ELSE LET rest == split(Tail(s), sep) IN
       IF Head(s) = sep THEN << <<>> >> \o rest
       ELSE << <<Head(s)>> \o rest[1] >> \o Tail(rest)

\* extension that falls back only when there is no second segment
extensionNoEmptyFallback(imageState) ==
  LET segments == split(imageState.mimeType, "/") IN
  IF Len(segments) >= 2 THEN segments[2] ELSE <<"jpeg">>

\* imageState.mimeType.split('/')[1] || 'jpeg'
extension(imageState) ==
  LET segments == split(imageState.mimeType, "/") IN
  IF Len(segments) >= 2 /\ segments[2] # <<>> THEN segments[2]
  ELSE <<"jpeg">>

\* `${filenamePrefix}-${Date.now()}.${extension}`
filename(imageState, filenamePrefix, now) ==
  <<filenamePrefix, "-", now, ".">> \o extension(imageState)

RemoveAt(s, i) == SubSeq(s, 1, i - 1) \o SubSeq(s, i + 1, Len(s))

----------------------------------------------------------------------------
(* State after the module has loaded.  The page markup fixes whether the   *)
(* edit controls start disabled; both are admitted.                        *)
Init ==
  /\ originalImageState = Null
  /\ editedImageState = Null
  /\ generateButton = [disabled |-> FALSE, textContent |-> "Generate Image"]
  /\ generationPromptInput = [disabled |-> FALSE]
  /\ aspectRatioSelect = [disabled |-> FALSE]
  /\ \E d \in BOOLEAN :
       /\ editButton = [disabled |-> d, textContent |-> "Edit Image"]
       /\ editPromptInput = [disabled |-> d]
  /\ originalWrapper = <<>>
  /\ editedWrapper = <<>>
  /\ originalSaveContainer = <<>>
  /\ editedSaveContainer = <<>>
  /\ genCalls = <<>>
  /\ editCalls = <<>>
  /\ editedSource = Null
  /\ lastEvent = [op |-> "load"]

----------------------------------------------------------------------------
(* handleGenerate, from the click to the await.  The browser delivers the  *)
(* click only while the button is enabled.                                 *)
handleGenerate(value, ratio) ==
  /\ ~generateButton.disabled
  /\ LET generationPrompt == trim(value) IN
     IF generationPrompt = <<>>
     THEN /\ lastEvent' = [op |-> "handleGenerate", step |-> "alert",
                          value |-> value]
          /\ UNCHANGED <<originalImageState, editedImageState, ui, dom,
                         genCalls, editCalls, editedSource>>
     ELSE /\ Len(genCalls) < MaxGenCalls
          /\ setGenerateUIDisabled(TRUE)
          /\ originalImageState' = Null
          /\ editedImageState' = Null
          /\ editedSource' = Null
          /\ originalWrapper' = loadingNode("Generating original image...")
          /\ editedWrapper' = <<>>
          /\ originalSaveContainer' = <<>>
          /\ editedSaveContainer' = <<>>
          /\ setEditUIDisabled(TRUE, TRUE, Null)
          /\ genCalls' = Append(genCalls,
               [model |-> imageGenerationModel,
                prompt |-> generationPrompt,
                config |-> [numberOfImages |-> 1,
                            outputMimeType |-> ImageJpeg,
                            aspectRatio |-> ratio]])
          /\ lastEvent' = [op |-> "handleGenerate", step |-> "await",
                          value |-> value]
          /\ UNCHANGED editCalls

(* handleGenerate, from the settlement of call i to the end of finally.    *)
handleGenerateSettled(i, outcome) ==
  /\ i \in 1..Len(genCalls)
  /\ LET generationPrompt == genCalls[i].prompt
         threw == outcome.rejected \/ ~hasImageBytes(outcome.value)
         error == IF outcome.rejected THEN outcome.reason
                  ELSE Error("Failed to generate the initial image.")
         stored == generatedImageState(outcome.value)
     IN
     /\ IF threw
        THEN /\ originalWrapper' = errorNode(error)
             /\ UNCHANGED <<originalImageState, originalSaveContainer,
                            editButton, editPromptInput>>
        ELSE /\ originalImageState' = stored
             /\ originalWrapper' =
                  <<imgNode(stored, generationPrompt),
                    [tag |-> "p",
                     text |-> <<"Prompt: ", generationPrompt>>]>>
             /\ originalSaveContainer' =
                  createSaveButton(originalSaveContainer, stored,
                                   "original-image")
             /\ setEditUIDisabled(FALSE, FALSE, stored)
     /\ setGenerateUIDisabled(FALSE)
     /\ genCalls' = RemoveAt(genCalls, i)
     /\ lastEvent' = [op |-> "handleGenerate", step |-> "settled",
                      outcome |-> outcome, threw |-> threw]
     /\ UNCHANGED <<editedImageState, editedWrapper, editedSaveContainer,
                    editCalls, editedSource>>

(* handleEdit, from the click to the await.                                *)
handleEdit(value) ==
  /\ ~editButton.disabled
  /\ LET editPrompt == trim(value) IN
     IF originalImageState = Null \/ editPrompt = <<>>
     THEN /\ lastEvent' = [op |-> "handleEdit", step |-> "alert",
                          value |-> value]
          /\ UNCHANGED <<originalImageState, editedImageState, ui, dom,
                         genCalls, editCalls, editedSource>>
     ELSE /\ Len(editCalls) < MaxEditCalls
          /\ setEditUIDisabled(TRUE, FALSE, originalImageState)
          /\ editedImageState' = Null
          /\ editedSource' = Null
          /\ editedWrapper' = loadingNode("Editing image with Nano Banana...")
          /\ editedSaveContainer' = <<>>
          /\ editCalls' = Append(editCalls,
               [model |-> imageEditModel,
                inlineData |-> [data |-> originalImageState.data,
                                mimeType |-> originalImageState.mimeType],
                text |-> editPrompt])
          /\ lastEvent' = [op |-> "handleEdit", step |-> "await",
                          value |-> value]
          /\ UNCHANGED <<originalImageState, generateButton,
                         generationPromptInput, aspectRatioSelect,
                         originalWrapper, originalSaveContainer, genCalls>>

(* handleEdit, from the settlement of call i to the end of finally.        *)
handleEditSettled(i, outcome) ==
  /\ i \in 1..Len(editCalls)
  /\ LET editPrompt == editCalls[i].text
         st == processParts(
                 [editedImageState |-> editedImageState,
                  editedWrapper |->
                     <<[tag |-> "p", text |-> <<"Edit: ", editPrompt>>]>>,
                  editedSaveContainer |-> editedSaveContainer,
                  imageFound |-> FALSE],
                 responseParts(outcome.value), editPrompt)
         threw == outcome.rejected \/ ~st.imageFound
         error == IF outcome.rejected THEN outcome.reason
                  ELSE Error("The model did not return an edited image.")
     IN
     /\ IF outcome.rejected
        THEN UNCHANGED <<editedImageState, editedSaveContainer,
                         editedSource>>
        ELSE /\ editedImageState' = st.editedImageState
             /\ editedSaveContainer' = st.editedSaveContainer
             /\ editedSource' = IF st.imageFound
                                THEN editCalls[i].inlineData
                                ELSE editedSource
     /\ editedWrapper' = IF threw THEN errorNode(error) ELSE st.editedWrapper
     /\ setEditUIDisabled(FALSE, FALSE, originalImageState)
     /\ editCalls' = RemoveAt(editCalls, i)
     /\ lastEvent' = [op |-> "handleEdit", step |-> "settled",
                      outcome |-> outcome, threw |-> threw,
                      request |-> editCalls[i]]
     /\ UNCHANGED <<originalImageState, generateButton,
                    generationPromptInput, aspectRatioSelect,
                    originalWrapper, originalSaveContainer, genCalls>>

(* downloadImage(imageState, filenamePrefix) run at time now.  The anchor   *)
(* is appended to the body, clicked and removed again; what remains is the *)
(* download the click started, kept in lastEvent.                          *)
downloadImage(imageState, filenamePrefix, now) ==
  /\ lastEvent' =
       [op |-> "downloadImage", imageState |-> imageState,
        filenamePrefix |-> filenamePrefix, now |-> now,
        clicked |-> IF imageState = Null THEN <<>>
                    ELSE <<[href |-> imageState,
                            download |-> filename(imageState, filenamePrefix,
                                                  now)]>>]
  /\ UNCHANGED <<originalImageState, editedImageState, ui, dom, genCalls,
                 editCalls, editedSource>>

(* A click on a save button of a save container runs its listener.         *)
saveButtonClick(container, now) ==
  \E k \in 1..Len(container) :
    downloadImage(container[k].onclick.imageState,
                  container[k].onclick.filenamePrefix, now)

GenOutcomes ==
  { [rejected |-> FALSE, value |-> r] : r \in GenResponses }
  \cup { [rejected |-> TRUE, reason |-> e] : e \in Rejections }

EditOutcomes ==
  { [rejected |-> FALSE, value |-> r] : r \in EditResponses }
  \cup { [rejected |-> TRUE, reason |-> e] : e \in Rejections }

Next ==
  \/ \E value \in PromptValues, ratio \in AspectRatio :
       handleGenerate(value, ratio)
  \/ \E i \in 1..MaxGenCalls, outcome \in GenOutcomes :
       handleGenerateSettled(i, outcome)
  \/ \E value \in PromptValues : handleEdit(value)
  \/ \E i \in 1..MaxEditCalls, outcome \in EditOutcomes :
       handleEditSettled(i, outcome)
  \/ \E now \in 0..MaxNow : saveButtonClick(originalSaveContainer, now)
  \/ \E now \in 0..MaxNow : saveButtonClick(editedSaveContainer, now)

Spec == Init /\ [][Next]_vars

(* Every issued remote call eventually resolves or rejects: the oldest     *)
(* pending call of each kind is eventually settled.                        *)
OldestGenerateSettles ==
  \E outcome \in GenOutcomes : handleGenerateSettled(1, outcome)
OldestEditSettles ==
  \E outcome \in EditOutcomes : handleEditSettled(1, outcome)

CallsSettle == WF_vars(OldestGenerateSettles) /\ WF_vars(OldestEditSettles)

FairSpec == Spec /\ CallsSettle

(* The page as loaded with the edit controls disabled.                     *)
InitEditLocked == Init /\ editButton.disabled /\ editPromptInput.disabled

SpecEditLocked == InitEditLocked /\ [][Next]_vars

FairSpecEditLocked == SpecEditLocked /\ CallsSettle

----------------------------------------------------------------------------
(* The part loop of handleEdit on longer responses: one Edit Flow awaiting *)
(* its call after a first successful generation, settled by any response   *)
(* of up to MaxResponseParts parts.                                        *)
MaxResponseParts == 4

LongEditParts == EditParts \cup { [text |-> "B"], [text |-> ""] }

LongEditOutcomes ==
  { [rejected |-> FALSE,
     value |-> [candidates |-> <<[content |-> [parts |-> ps]]>>]] :
       ps \in SeqUpTo(LongEditParts, MaxResponseParts) }

InitEditPending ==
  LET original == [data |-> "G1", mimeType |-> ImagePng] IN
  /\ originalImageState = original
  /\ editedImageState = Null
  /\ generateButton = [disabled |-> FALSE, textContent |-> "Generate Image"]
  /\ generationPromptInput = [disabled |-> FALSE]
  /\ aspectRatioSelect = [disabled |-> FALSE]
  /\ editButton = [disabled |-> TRUE, textContent |-> "Editing..."]
  /\ editPromptInput = [disabled |-> TRUE]
  /\ originalWrapper =
       <<imgNode(original, <<"c">>),
         [tag |-> "p", text |-> <<"Prompt: ", <<"c">>>>]>>
  /\ editedWrapper = loadingNode("Editing image with Nano Banana...")
  /\ originalSaveContainer =
       createSaveButton(<<>>, original, "original-image")
  /\ editedSaveContainer = <<>>
  /\ genCalls = <<>>
  /\ editCalls = <<[model |-> imageEditModel, inlineData |-> original,
                    text |-> <<"c">>]>>
  /\ editedSource = Null
  /\ lastEvent = [op |-> "handleEdit", step |-> "await", value |-> <<"c">>]

EditResponseNext ==
  \E outcome \in LongEditOutcomes : handleEditSettled(1, outcome)

SpecEditResponse == InitEditPending /\ [][EditResponseNext]_vars

----------------------------------------------------------------------------
(* downloadImage on its own: any artifact, also null and with mime types   *)
(* that have no or an empty subtype, under either file name prefix.        *)
DownloadMimeTypes ==
  { ImagePng, ImageJpeg, <<"image", "/", "svg+xml">>, <<"image">>,
    <<"image", "/">>, <<>> }

DownloadArtifacts ==
  { [data |-> d, mimeType |-> m] : d \in {"G1", "E1", "E2"},
                                   m \in DownloadMimeTypes }

FilenamePrefixes == {"original-image", "edited-image"}

DownloadNext ==
  \E imageState \in DownloadArtifacts \cup {Null},
     filenamePrefix \in FilenamePrefixes, now \in 0..MaxNow :
    downloadImage(imageState, filenamePrefix, now)

SpecDownload == Init /\ [][DownloadNext]_vars

----------------------------------------------------------------------------
(* Flows in flight: a handler past its validation whose await has not      *)
(* settled.                                                                *)
GenerationInFlight == Len(genCalls) >= 1
EditInFlight == Len(editCalls) >= 1

GenerateSettled ==
  lastEvent.op = "handleGenerate" /\ lastEvent.step = "settled"
GenerateSucceeded == GenerateSettled /\ ~lastEvent.threw
GenerateFailed == GenerateSettled /\ lastEvent.threw
EditSettled == lastEvent.op = "handleEdit" /\ lastEvent.step = "settled"

\* the number of image parts of an edit settlement
RECURSIVE imageParts(_)
imageParts(parts) ==
  IF parts = <<>> THEN 0
  ELSE (IF isImagePart(Head(parts)) THEN 1 ELSE 0) + imageParts(Tail(parts))

----------------------------------------------------------------------------
(* C1: at most one Edit Flow is in flight in every reachable state.        *)
C1_AtMostOneEditFlow == Len(editCalls) <= 1

(* C2: a Generation Flow and an Edit Flow are never both in flight.        *)
C2_NoGenerateEditOverlap == ~(GenerationInFlight /\ EditInFlight)

(* C3: whenever editedImageState is non-null, originalImageState is        *)
(* non-null and the edited artifact came from a request whose source image *)
(* is the current originalImageState.                                      *)
C3_EditedDerivedFromCurrentOriginal ==
  editedImageState # Null =>
    /\ originalImageState # Null
    /\ editedSource = originalImageState

(* C4: right after a Generation Flow completes with a well-formed image,   *)
(* originalImageState is that image, editedImageState is null and the Edit *)
(* trigger is enabled.                                                     *)
C4_GenerateSuccessPostcondition ==
  GenerateSucceeded =>
    LET image == lastEvent.outcome.value.generatedImages[1].image IN
    /\ originalImageState # Null
    /\ originalImageState.data = image.imageBytes
    /\ originalImageState.mimeType =
         (IF "mimeType" \in DOMAIN image THEN image.mimeType
          ELSE <<"image", "/", "jpeg">>)
    /\ editedImageState = Null
    /\ ~editButton.disabled

(* C5: while a Generation Flow is in flight, editedImageState is null.     *)
C5_EditedNullWhileGenerating == GenerationInFlight => editedImageState = Null

(* C6: while a Generation Flow is in flight, the Edit trigger is disabled, *)
(* also after an Edit Flow that was mid-flight at Generation start has     *)
(* completed.                                                              *)
C6_EditDisabledWhileGenerating == GenerationInFlight => editButton.disabled

C6_Witness ==
  /\ GenerationInFlight
  /\ EditSettled /\ ~lastEvent.threw
  /\ editButton.disabled

(* C7: each flow's trigger is disabled while that flow is in flight.       *)
C7_OwnTriggerDisabledWhileLoading ==
  /\ GenerationInFlight => generateButton.disabled
  /\ EditInFlight => editButton.disabled

(* C8: at most one Generation Flow is in flight, and the Generate button   *)
(* is disabled for as long as it is.                                       *)
C8_AtMostOneGenerationFlow ==
  /\ Len(genCalls) <= 1
  /\ GenerationInFlight => generateButton.disabled

C8_Witness ==
  /\ Len(genCalls) = 1
  /\ EditSettled /\ lastEvent.threw
  /\ generateButton.disabled

(* C9: a failed Generation Flow leaves originalImageState null and the     *)
(* Edit trigger disabled, and every later step other than a successful     *)
(* Generation Flow completion keeps them so.                               *)
C9_GenerateFailureKeepsEditLocked ==
  [][ /\ GenerateFailed' =>
           originalImageState' = Null /\ editButton'.disabled
      /\ (originalImageState = Null /\ editButton.disabled
            /\ ~GenerateSucceeded') =>
           originalImageState' = Null /\ editButton'.disabled ]_vars

C9_Witness ==
  /\ EditSettled
  /\ ~GenerationInFlight
  /\ originalWrapper =
       errorNode(Error("Failed to generate the initial image."))
  /\ originalImageState = Null
  /\ editButton.disabled

(* C10: an Edit Flow whose response has no image part ends with the edit   *)
(* region holding only the error message and editedImageState null.        *)
C10_NoImagePartFails ==
  (EditSettled /\ ~lastEvent.outcome.rejected
     /\ imageParts(responseParts(lastEvent.outcome.value)) = 0) =>
    /\ editedWrapper =
         errorNode(Error("The model did not return an edited image."))
    /\ editedImageState = Null

----------------------------------------------------------------------------
(* C11: after an Edit Flow whose response has at least one image part,     *)
(* editedImageState is the last image part, the save control refers to     *)
(* that image, every image part is rendered, and the last image is the     *)
(* first node of the edit region, above every text node.                   *)
C11_LastImageWinsAllRendered ==
  (EditSettled /\ ~lastEvent.outcome.rejected
     /\ imageParts(responseParts(lastEvent.outcome.value)) >= 1) =>
    LET images == SelectSeq(responseParts(lastEvent.outcome.value),
                            isImagePart)
        last == images[Len(images)].inlineData
        rendered == SelectSeq(editedWrapper, LAMBDA n : n.tag = "img")
    IN
    /\ editedImageState = [data |-> last.data, mimeType |-> last.mimeType]
    /\ Len(editedSaveContainer) = 1
    /\ editedSaveContainer[1].onclick.imageState = editedImageState
    /\ Len(rendered) = Len(images)
    /\ \A k \in 1..Len(images) :
         rendered[k].src.data = images[Len(images) + 1 - k].inlineData.data
    /\ editedWrapper[1].tag = "img"
    /\ editedWrapper[1].src = editedImageState
    /\ \A i, j \in 1..Len(editedWrapper) :
         (editedWrapper[i].tag = "img" /\ editedWrapper[j].tag = "p") => i < j

C11_Witness ==
  /\ EditSettled /\ ~lastEvent.outcome.rejected
  /\ responseParts(lastEvent.outcome.value) =
       << [text |-> "A"],
          [inlineData |-> [data |-> "E1", mimeType |-> ImagePng]],
          [text |-> "B"],
          [inlineData |-> [data |-> "E2", mimeType |-> ImagePng]] >>
  /\ editedImageState = [data |-> "E2", mimeType |-> ImagePng]
  /\ Len(editedWrapper) = 5

----------------------------------------------------------------------------
\* the typed value is empty or consists of white space only
Blank(value) == \A k \in 1..Len(value) : value[k] \in {" ", "\t", "\n"}

\* the step just taken is a click on the Edit / Generate button
EditClicked == lastEvent.op = "handleEdit" /\ lastEvent.step # "settled"
GenerateClicked == lastEvent.op = "handleGenerate" /\ lastEvent.step # "settled"

(* C12: an Edit click while originalImageState is null, or with an empty   *)
(* or white-space instruction, issues no call and changes neither image    *)
(* slot, nor a region, nor a save control, nor a control's enabled state.  *)
C12_InvalidEditChangesNothing ==
  [][ (EditClicked'
         /\ (originalImageState = Null \/ Blank(lastEvent'.value))) =>
        UNCHANGED <<originalImageState, editedImageState, ui, dom,
                    genCalls, editCalls>> ]_vars

C12_Witness ==
  /\ EditClicked
  /\ ~Blank(lastEvent.value)
  /\ originalImageState = Null
  /\ editCalls = <<>>

(* C13: a Generate click with an empty or white-space prompt issues no     *)
(* call and changes neither image slot, nor a region, nor a save control,  *)
(* nor a control's enabled state.                                          *)
C13_InvalidGenerateChangesNothing ==
  [][ (GenerateClicked' /\ Blank(lastEvent'.value)) =>
        UNCHANGED <<originalImageState, editedImageState, ui, dom,
                    genCalls, editCalls>> ]_vars

C13_Witness ==
  /\ GenerateClicked
  /\ Blank(lastEvent.value) /\ lastEvent.value # <<>>
  /\ originalImageState # Null
  /\ editedImageState # Null
  /\ originalSaveContainer # <<>>
  /\ editedSaveContainer # <<>>

----------------------------------------------------------------------------
(* C14: right after an Edit Flow completes, the Edit trigger is enabled    *)
(* if and only if originalImageState is non-null; when a Generation Flow   *)
(* has cleared the original in the meantime the trigger stays disabled.    *)
C14_EditReenabledOnlyWithOriginal ==
  EditSettled => (~editButton.disabled <=> originalImageState # Null)

C14_Witness ==
  /\ EditSettled
  /\ originalImageState = Null
  /\ originalWrapper = loadingNode("Generating original image...")
  /\ editButton.disabled /\ editPromptInput.disabled

----------------------------------------------------------------------------
(* C15: provided its remote call settles, every Generation Flow that has   *)
(* entered its loading state reaches its completion with the Generate      *)
(* controls enabled again, on the success path and on every failure path.  *)
C15_GenerateControlsReenabled ==
  GenerationInFlight ~>
    (/\ GenerateSettled
     /\ ~generateButton.disabled
     /\ ~generationPromptInput.disabled
     /\ ~aspectRatioSelect.disabled)

C15_Witness ==
  /\ GenerateFailed
  /\ lastEvent.outcome.rejected
  /\ ~generateButton.disabled
  /\ generateButton.textContent = "Generate Image"

----------------------------------------------------------------------------
Downloaded == lastEvent.op = "downloadImage"

\* the part of a mime type after its "/", "jpeg" when absent or empty
ExpectedExtension(mimeType) ==
  LET slashes == { k \in 1..Len(mimeType) : mimeType[k] = "/" } IN
  IF slashes = {} THEN <<"jpeg">>
  ELSE LET first == CHOOSE k \in slashes : \A j \in slashes : k <= j
           after == SubSeq(mimeType, first + 1, Len(mimeType))
       IN IF after = <<>> THEN <<"jpeg">> ELSE after

(* C17: the save action names the file <prefix>-<millis>.<ext>, ext being  *)
(* the part of the mime type after "/" or jpeg when that part is absent or *)
(* empty; two successive saves of one artifact give names that differ in   *)
(* the timestamp only; a null artifact starts no download.                 *)
C17_DownloadFilename ==
  /\ [](Downloaded =>
          IF lastEvent.imageState = Null THEN lastEvent.clicked = <<>>
          ELSE /\ Len(lastEvent.clicked) = 1
               /\ lastEvent.clicked[1].download =
                    <<lastEvent.filenamePrefix, "-", lastEvent.now, ".">>
                      \o ExpectedExtension(lastEvent.imageState.mimeType))
  /\ [][ (/\ Downloaded /\ Downloaded'
          /\ lastEvent.imageState # Null
          /\ lastEvent'.imageState = lastEvent.imageState
          /\ lastEvent'.filenamePrefix = lastEvent.filenamePrefix) =>
         LET f == lastEvent.clicked[1].download
             g == lastEvent'.clicked[1].download
         IN /\ Len(f) = Len(g)
            /\ \A k \in 1..Len(f) : k # 3 => f[k] = g[k] ]_vars

C17_Witness ==
  /\ Downloaded
  /\ lastEvent.imageState = [data |-> "E1", mimeType |-> <<"image", "/">>]
  /\ lastEvent.clicked[1].download = <<"edited-image", "-", 1, ".", "jpeg">>

----------------------------------------------------------------------------
(* C16: originalImageState becomes null when a Generation Flow starts,     *)
(* becomes the returned image when it succeeds, and is left unchanged by   *)
(* every other step: Edit start, Edit completion or failure, a failed      *)
(* validation, a failed generation, a save.                                *)
C16_OriginalWrittenByGenerateOnly ==
  [][ IF GenerateClicked' /\ lastEvent'.step = "await"
      THEN originalImageState' = Null
      ELSE IF GenerateSucceeded'
      THEN LET image == lastEvent'.outcome.value.generatedImages[1].image IN
           originalImageState' =
             [data |-> image.imageBytes,
              mimeType |-> IF "mimeType" \in DOMAIN image THEN image.mimeType
                           ELSE <<"image", "/", "jpeg">>]
      ELSE originalImageState' = originalImageState ]_vars

C16_Witness ==
  /\ EditSettled /\ lastEvent.threw
  /\ originalImageState = [data |-> "G2", mimeType |-> <<"image", "/", "jpeg">>]
  /\ originalSaveContainer # <<>>

----------------------------------------------------------------------------
(* C18: from a page that starts with the Edit trigger disabled and no      *)
(* original, the Edit trigger is enabled only while originalImageState is  *)
(* non-null.                                                               *)
C18_EditEnabledOnlyWithOriginal ==
  ~editButton.disabled => originalImageState # Null

C18_Witness ==
  /\ EditSettled
  /\ ~GenerationInFlight
  /\ originalWrapper = errorNode([isError |-> TRUE, message |-> "network"])
  /\ originalImageState = Null
  /\ editButton.disabled

----------------------------------------------------------------------------
\* a save container exposes a control exactly for a non-null slot, and the
\* control's listener holds the slot's artifact
SaveControlMatches(container, slot) ==
  IF slot = Null THEN container = <<>>
  ELSE /\ Len(container) = 1
       /\ container[1].tag = "button"
       /\ container[1].onclick.imageState = slot

(* C19: for the original and for the edited slot, a save control is        *)
(* exposed if and only if the slot is non-null, and it captures the slot's *)
(* current artifact.                                                       *)
C19_SaveControlsFollowSlots ==
  /\ SaveControlMatches(originalSaveContainer, originalImageState)
  /\ SaveControlMatches(editedSaveContainer, editedImageState)

C19_Witness ==
  /\ EditSettled /\ lastEvent.threw
  /\ editedImageState # Null
  /\ editedSaveContainer # <<>>
  /\ originalImageState # Null
  /\ originalSaveContainer # <<>>

----------------------------------------------------------------------------
\* no flow is in flight
Quiescent == genCalls = <<>> /\ editCalls = <<>>

\* a step taken by the user: a click on Generate, on Edit or on a save button
UserClick ==
  \/ \E value \in PromptValues, ratio \in AspectRatio :
       handleGenerate(value, ratio)
  \/ \E value \in PromptValues : handleEdit(value)
  \/ \E now \in 0..MaxNow : saveButtonClick(originalSaveContainer, now)
  \/ \E now \in 0..MaxNow : saveButtonClick(editedSaveContainer, now)

====
